---- MODULE Spec2Model ----
(***************************************************************************)
(* Model of src/src/utils/logger.py: the JSON-lines formatter, the logger  *)
(* factory create_logger, and the CCTVLogger facade with its IP masking,   *)
(* together with the behaviour of the logging objects the module builds    *)
(* (Logger.handle, TimedRotatingFileHandler with when="D", interval=1,     *)
(* backupCount=14).                                                        *)
(*                                                                         *)
(* Time is counted in days.  A Python str that the program splits (an IP   *)
(* address) is a sequence of one-character strings; a str that it only     *)
(* copies or concatenates is a TLA+ string.  A dict is the sequence of its *)
(* key/value pairs in insertion order.                                     *)
(***************************************************************************)
EXTENDS Integers, Sequences, FiniteSets, TLC

VARIABLES
    clock,        \* time.time(), in days
    loggerDict,   \* logging.Logger.manager.loggerDict: name -> logger id, 0 if absent
    levels,       \* logger.level of each named logger
    handlers,     \* logger.handlers of each named logger: a sequence of sinks
    nextId,       \* identity of the next object created (handler or logger)
    fs,           \* the log directory: per channel, the live file and the rotated files
    constructed,  \* number of CCTVLogger objects constructed so far
    returned,     \* per name, the sinks of the loggers returned by create_logger, in call order
    last,         \* what the most recent facade call did
    seen,         \* the channels that have had a call fail to encode, or a sink without an open stream
    calls,        \* per thread, the facade calls it has completed
    ip,           \* argument of the _mask_ip call under test
    masked,       \* its result
    pc,           \* per thread, the position in the code it executes
    frame,        \* per thread, its local variables
    lock,         \* Handler.lock of each sink: the thread holding it, 0 if free
    rotations     \* per channel, the rollovers performed at the current clock value

vars == <<clock, loggerDict, levels, handlers, nextId, fs, constructed, returned,
          last, seen, calls, ip, masked, pc, frame, lock, rotations>>

-----------------------------------------------------------------------------
(* Bounds of the model *)

MaxLen == 7          \* longest string handed to _mask_ip
MaxClock == 1        \* days the clock may advance
MaxObjects == 6      \* loggers and handlers created in one behaviour
MaxThreadCalls == 2  \* facade calls of one thread
MaxBuffered == 1     \* lines that failed flushes have left in one stream's buffer

(* Program constants *)

backupCount == 14    \* TimedRotatingFileHandler(backupCount=14)
Interval == 1        \* when="D", interval=1: one day
NOTSET == 0          \* level of a handler that was never given one
INFO == 20
WARNING == 30
ERROR == 40

Names == {"events", "threats"}
LevelNames == <<"INFO", "ERROR">>   \* the level arguments tried

-----------------------------------------------------------------------------
(* Strings as character sequences *)

Dot == "."
Alphabet == {"1", "a", Dot}
Xxx == <<"x", "x", "x">>
Unknown == <<"u", "n", "k", "n", "o", "w", "n">>

Strings(n) == UNION {[1..m -> Alphabet] : m \in 0..n}

(* str.split("."): the segments between the dots, one more than the dots *)
RECURSIVE split(_)
split(s) ==
    IF \A i \in DOMAIN s : s[i] # Dot
    THEN <<s>>
    ELSE LET i == CHOOSE j \in DOMAIN s :
                      s[j] = Dot /\ \A k \in 1..(j - 1) : s[k] # Dot
         IN  <<SubSeq(s, 1, i - 1)>> \o split(SubSeq(s, i + 1, Len(s)))

mask_at_least_four(s) ==
    LET parts == split(s)
    IN  IF Len(parts) >= 4
        THEN parts[1] \o <<Dot>> \o parts[2] \o <<Dot>> \o parts[3] \o <<Dot>> \o Xxx
        ELSE Unknown

(* CCTVLogger._mask_ip *)
_mask_ip(s) ==
    LET parts == split(s)
    IN  IF Len(parts) = 4
        THEN parts[1] \o <<Dot>> \o parts[2] \o <<Dot>> \o parts[3] \o <<Dot>> \o Xxx
        ELSE Unknown

-----------------------------------------------------------------------------
(* Python values and dicts *)

Str(s) == <<"str", s, <<>>, 0>>       \* a str the program only copies
Text(cs) == <<"str", "", cs, 0>>     \* a str given character by character
PyInt(n) == <<"int", "", <<>>, n>>
Float(n) == <<"float", "", <<>>, n>>  \* n thousandths
Obj == <<"object", "", <<>>, 32512>>  \* an object(), at some address; json.dumps rejects it

TypeOf(v) == v[1]
Atom(v) == v[2]      \* the text of a str given whole
Chars(v) == v[3]     \* the text of a str given character by character
Number(v) == v[4]

Pair(k, v) == <<k, v>>
Key(p) == p[1]
Val(p) == p[2]
KeysOf(d) == {Key(d[i]) : i \in DOMAIN d}
Has(d, k) == k \in KeysOf(d)
Get(d, k) == Val(d[CHOOSE i \in DOMAIN d : Key(d[i]) = k])

(* d[k] = v: an existing key keeps its place, a new key goes last *)
SetItem(d, k, v) ==
    IF Has(d, k)
    THEN [i \in DOMAIN d |-> IF Key(d[i]) = k THEN Pair(k, v) ELSE d[i]]
    ELSE Append(d, Pair(k, v))

(* del d[k] *)
DelItem(d, k) == SelectSeq(d, LAMBDA p : Key(p) # k)

(* d.update(e), and {..., **e} *)
RECURSIVE Update(_, _)
Update(d, e) ==
    IF e = <<>> THEN d ELSE Update(SetItem(d, Key(Head(e)), Val(Head(e))), Tail(e))

RECURSIVE Join(_)
Join(cs) == IF cs = <<>> THEN "" ELSE Head(cs) \o Join(Tail(cs))

HexDigits == <<"0", "1", "2", "3", "4", "5", "6", "7", "8", "9", "a", "b", "c", "d", "e", "f">>

RECURSIVE Hex(_)
Hex(n) == IF n < 16 THEN HexDigits[n + 1] ELSE Hex(n \div 16) \o HexDigits[(n % 16) + 1]

(* repr of the float of n thousandths: the shortest decimal, at least one *)
(* digit after the point                                                  *)
FloatRepr(n) ==
    LET a == IF n < 0 THEN 0 - n ELSE n
        f == a % 1000
        frac == IF f = 0 THEN "0"
                ELSE IF f % 100 = 0 THEN ToString(f \div 100)
                ELSE IF f % 10 = 0
                     THEN (IF f < 100 THEN "0" ELSE "") \o ToString(f \div 10)
                ELSE (IF f < 10 THEN "00" ELSE IF f < 100 THEN "0" ELSE "") \o ToString(f)
    IN  (IF n < 0 THEN "-" ELSE "") \o ToString(a \div 1000) \o "." \o frac

(* str(v) as an f-string renders it *)
Format(v) ==
    CASE TypeOf(v) = "str" -> Atom(v) \o Join(Chars(v))
      [] TypeOf(v) = "int" -> ToString(Number(v))
      [] TypeOf(v) = "float" -> FloatRepr(Number(v))
      [] OTHER -> "<object object at 0x" \o Hex(Number(v)) \o ">"

(* A float is the IEEE double nearest to its decimal.  Of a / 1000, a > 0,  *)
(* Doubled(r, k, digit) takes k more binary digits after remainder r (in     *)
(* thousandths): <<the remainder left, the last digit taken>>.              *)
RECURSIVE Doubled(_, _, _)
Doubled(r, k, digit) ==
    IF k = 0 THEN <<r, digit>>
    ELSE Doubled((2 * r) % 1000, k - 1, (2 * r) \div 1000)

RECURSIVE BitLength(_)
BitLength(i) == IF i = 0 THEN 0 ELSE 1 + BitLength(i \div 2)

(* the remainder of a fraction r / 1000 > 0 after its first binary digit 1 *)
RECURSIVE AfterLeadingOne(_)
AfterLeadingOne(r) ==
    IF 2 * r >= 1000 THEN (2 * r) % 1000 ELSE AfterLeadingOne(2 * r)

(* Where the double of a / 1000 lies: 1 above the decimal, -1 below, 0 on it *)
DoubleSide(a) ==
    LET i == a \div 1000
        d == IF i > 0
             THEN Doubled(a % 1000, 53 - BitLength(i), i % 2)
             ELSE Doubled(AfterLeadingOne(a % 1000), 52, 1)
        r == d[1]
    IN  IF a = 0 \/ r = 0 THEN 0
        ELSE IF 2 * r > 1000 \/ (2 * r = 1000 /\ d[2] = 1) THEN 1
        ELSE 0 - 1

(* round(x, 2) of the float x of n thousandths: the nearest hundredth to the *)
(* double's exact value, a true tie going to the even hundredth              *)
round2(n) ==
    LET a == IF n < 0 THEN 0 - n ELSE n
        q == a \div 10
        r == a % 10
        side == DoubleSide(a)
        up == r > 5 \/ (r = 5 /\ (side > 0 \/ (side = 0 /\ q % 2 = 1)))
        m == IF up THEN (q + 1) * 10 ELSE q * 10
    IN  IF n < 0 THEN 0 - m ELSE m

-----------------------------------------------------------------------------
(* JSON *)

JString(s) == <<"string", s, 0, 0>>
JNumber(n, e) == <<"number", "", n, e>>   \* n * 10^e

Encodable(v) == TypeOf(v) # "object"

(* the JSON token json.dumps writes for one value *)
Encode(v) ==
    CASE TypeOf(v) = "str" -> JString(Atom(v) \o Join(Chars(v)))
      [] TypeOf(v) = "int" -> JNumber(Number(v), 0)
      [] OTHER -> JNumber(Number(v), -3)

(* json.dumps(d, ensure_ascii=False): the members in the dict's order, or a *)
(* TypeError when a value has no JSON form                                  *)
dumps(d) ==
    IF \A i \in DOMAIN d : Encodable(Val(d[i]))
    THEN [ok |-> TRUE, line |-> [i \in DOMAIN d |-> Pair(Key(d[i]), Encode(Val(d[i])))]]
    ELSE [ok |-> FALSE, line |-> <<>>]

(* datetime.utcnow().isoformat() + "Z" *)
Timestamp(now) == Str("day" \o ToString(now) \o "Z")

format_fixed_keys_win(record, now) ==
    dumps(Update(record.extra_data,
                 <<Pair("timestamp", Timestamp(now)),
                   Pair("level", Str(record.levelname)),
                   Pair("message", Str(record.msg))>>))

(* JsonFormatter.format *)
format(record, now) ==
    LET log_entry == <<Pair("timestamp", Timestamp(now)),
                       Pair("level", Str(record.levelname)),
                       Pair("message", Str(record.msg))>>
    IN  dumps(Update(log_entry, record.extra_data))

(* logging.getLevelName *)
getLevelName(levelno) ==
    CASE levelno = 50 -> "CRITICAL"
      [] levelno = ERROR -> "ERROR"
      [] levelno = WARNING -> "WARNING"
      [] levelno = INFO -> "INFO"
      [] levelno = 10 -> "DEBUG"
      [] levelno = NOTSET -> "NOTSET"
      [] OTHER -> "Level " \o ToString(levelno)

(* getattr(logging, level.upper()) *)
LevelOf(name) ==
    CASE name = "INFO" -> INFO
      [] name = "WARNING" -> WARNING
      [] name = "ERROR" -> ERROR

(* Logger.makeRecord(name, level, "", 0, msg, (), None), then record.extra_data = ... *)
makeRecord(name, levelno, msg, extra_data) ==
    [name |-> name, levelno |-> levelno, levelname |-> getLevelName(levelno),
     msg |-> msg, extra_data |-> extra_data]

-----------------------------------------------------------------------------
(* The records the facade builds *)

(* log_network_event, up to the call of event_logger.handle *)
network_record(event_type, src_ip, dst_ip, port, protocol, kwargs) ==
    makeRecord("events", INFO, "NETWORK: " \o event_type,
        Update(<<Pair("category", Str("network")),
                 Pair("event_type", Str(event_type)),
                 Pair("src_ip", Text(_mask_ip(src_ip))),
                 Pair("dst_ip", Text(_mask_ip(dst_ip))),
                 Pair("port", PyInt(port)),
                 Pair("protocol", Str(protocol))>>, kwargs))

(* log_api_request, up to the call of event_logger.handle *)
api_record(method, endpoint, src_ip, status_code, response_time_ms, kwargs) ==
    makeRecord("events", INFO, "API: " \o method \o " " \o endpoint,
        Update(<<Pair("category", Str("api")),
                 Pair("method", Str(method)),
                 Pair("endpoint", Str(endpoint)),
                 Pair("src_ip", Text(_mask_ip(src_ip))),
                 Pair("status_code", PyInt(status_code)),
                 Pair("response_time_ms", Float(round2(response_time_ms)))>>, kwargs))

(* What a piece of code gives its caller: a value, or an exception *)
Returned(v) == [raised |-> "", value |-> v]
Raised(e) == [raised |-> e, value |-> <<>>]

threat_data_keeps_given_mask(category, threat) ==
    LET threat_data == Update(<<Pair("category", Str(category))>>, threat)
    IN  IF Has(threat_data, "src_ip")
        THEN IF TypeOf(Get(threat_data, "src_ip")) # "str"
             THEN Raised("AttributeError")
             ELSE Returned(DelItem(IF Has(threat_data, "src_ip_masked")
                                   THEN threat_data
                                   ELSE SetItem(threat_data, "src_ip_masked",
                                            Text(_mask_ip(Chars(Get(threat_data, "src_ip"))))),
                                   "src_ip"))
        ELSE Returned(threat_data)

(* log_threat: threat_data = {"category": category, **threat}, src_ip replaced *)
(* by its mask.  A src_ip that is not a str has no split: AttributeError.  (A  *)
(* str that is split is given character by character, as Text.)                *)
threat_data_of(category, threat) ==
    LET threat_data == Update(<<Pair("category", Str(category))>>, threat)
    IN  IF Has(threat_data, "src_ip")
        THEN IF TypeOf(Get(threat_data, "src_ip")) # "str"
             THEN Raised("AttributeError")
             ELSE Returned(DelItem(SetItem(threat_data, "src_ip_masked",
                                       Text(_mask_ip(Chars(Get(threat_data, "src_ip"))))),
                                   "src_ip"))
        ELSE Returned(threat_data)

(* log_threat, up to the call of threat_logger.handle; an exception raised *)
(* on the way leaves log_threat before any record is made                  *)
threat_record(category, threat) ==
    LET threat_data == threat_data_of(category, threat)
    IN  IF threat_data.raised # ""
        THEN threat_data
        ELSE Returned(makeRecord("threats", WARNING,
                 "THREAT: " \o (IF Has(threat, "threat_type")
                                THEN Format(Get(threat, "threat_type"))
                                ELSE "UNKNOWN"),
                 threat_data.value))

-----------------------------------------------------------------------------
(* The sink: TimedRotatingFileHandler(when="D", interval=1, backupCount=14) *)
(* on <log_dir>/<name>.jsonl.  A sink is [id, level, stream, buffer,        *)
(* rolloverAt].  stream is "open", "closed" (self.stream is a closed file   *)
(* object) or "none" (self.stream is None).  The stream is a buffered text  *)
(* file: write puts a line in its buffer and flush hands the buffer to the  *)
(* operating system; buffer holds the lines that a failed flush left there. *)
(* A channel's files are [exists, mtime, backups]: the live file and the    *)
(* dates of the rotated files; the lines that reach the channel's files are *)
(* kept per call (wrote).  F is the set of file operations that fail during *)
(* a call.                                                                  *)

NoFile == [exists |-> FALSE, mtime |-> 0, backups |-> {}]

(* open(baseFilename, "a"): creates the file when it is missing *)
Opened(f, now) ==
    IF f.exists THEN f ELSE [f EXCEPT !.exists = TRUE, !.mtime = now]

(* TimedRotatingFileHandler.computeRollover for when="D" *)
computeRollover(t) == t + Interval

(* TimedRotatingFileHandler.shouldRollover *)
shouldRollover(h, now) == now >= h.rolloverAt

getFilesToDelete_keeps_one_more(backups) ==
    IF Cardinality(backups) < backupCount + 1
    THEN {}
    ELSE {d \in backups : Cardinality({e \in backups : e > d}) >= backupCount + 1}

(* TimedRotatingFileHandler.getFilesToDelete: all but the backupCount newest *)
getFilesToDelete(backups) ==
    IF Cardinality(backups) < backupCount
    THEN {}
    ELSE {d \in backups : Cardinality({e \in backups : e > d}) >= backupCount}

Failed(h, f, flushed) == [h |-> h, f |-> f, flushed |-> flushed, err |-> TRUE]
Done(h, f, flushed) == [h |-> h, f |-> f, flushed |-> flushed, err |-> FALSE]

(* self.stream.close(): the buffered lines are flushed into the live file.   *)
(* When that write fails close raises, the file object is closed all the     *)
(* same and the buffered lines are lost.  Closing a closed stream does       *)
(* nothing.                                                                  *)
close(h, f, now, F) ==
    IF h.stream = "open" /\ h.buffer # <<>>
    THEN IF "write" \in F
         THEN Failed([h EXCEPT !.stream = "closed", !.buffer = <<>>], f, <<>>)
         ELSE Done([h EXCEPT !.stream = "closed", !.buffer = <<>>],
                   [f EXCEPT !.mtime = now], h.buffer)
    ELSE Done([h EXCEPT !.stream = IF @ = "none" THEN "none" ELSE "closed"], f, <<>>)

doRollover_renames_blindly(h, f, now, F) ==
    LET c == close(h, f, now, F)
        h1 == [c.h EXCEPT !.stream = "none"]
        dfn == h.rolloverAt - Interval
        f1 == [c.f EXCEPT !.backups = @ \ {dfn}]
        f2 == [f1 EXCEPT !.exists = FALSE, !.backups = @ \cup {dfn}]
        old == getFilesToDelete(f2.backups)
        f3 == [f2 EXCEPT !.backups = @ \ old]
    IN  IF c.err THEN Failed(c.h, c.f, <<>>)
        ELSE IF dfn \in f.backups /\ "remove" \in F THEN Failed(h1, c.f, c.flushed)
        ELSE IF ~f1.exists \/ "rename" \in F THEN Failed(h1, f1, c.flushed)
        ELSE IF old # {} /\ "remove" \in F THEN Failed(h1, f2, c.flushed)
        ELSE IF "open" \in F THEN Failed(h1, f3, c.flushed)
        ELSE Done([h1 EXCEPT !.stream = "open", !.rolloverAt = computeRollover(now)],
                  Opened(f3, now), c.flushed)

(* TimedRotatingFileHandler.doRollover: close the stream and set it to None, *)
(* rename the live file to <name>.<date of the interval's start>, delete the *)
(* oldest rotated files, reopen, set the next rollover time.  The first      *)
(* failing step raises; flushed are the lines the close put in the file.     *)
doRollover(h, f, now, F) ==
    LET c == close(h, f, now, F)
        h1 == [c.h EXCEPT !.stream = "none"]
        dfn == h.rolloverAt - Interval
        f1 == [c.f EXCEPT !.backups = @ \ {dfn}]
        f2 == IF f1.exists
              THEN [f1 EXCEPT !.exists = FALSE, !.backups = @ \cup {dfn}]
              ELSE f1
        old == getFilesToDelete(f2.backups)
        f3 == [f2 EXCEPT !.backups = @ \ old]
    IN  IF c.err THEN Failed(c.h, c.f, <<>>)
        ELSE IF dfn \in f.backups /\ "remove" \in F THEN Failed(h1, c.f, c.flushed)
        ELSE IF f1.exists /\ "rename" \in F THEN Failed(h1, f1, c.flushed)
        ELSE IF old # {} /\ "remove" \in F THEN Failed(h1, f2, c.flushed)
        ELSE IF "open" \in F THEN Failed(h1, f3, c.flushed)
        ELSE Done([h1 EXCEPT !.stream = "open", !.rolloverAt = computeRollover(now)],
                  Opened(f3, now), c.flushed)

Emitted(h, f, wrote, error) == [h |-> h, f |-> f, wrote |-> wrote, error |-> error]

(* StreamHandler.emit: format, then stream.write(msg + "\n"), which puts the *)
(* line in the stream's buffer, and flush, which writes the whole buffer to  *)
(* the file.  When that write fails the buffer keeps its lines, the one of   *)
(* this record included.  An exception goes to handleError, which reports    *)
(* it on stderr.                                                             *)
StreamHandler_emit(h, f, record, now, F) ==
    LET msg == format(record, now)
    IN  IF ~msg.ok THEN Emitted(h, f, <<>>, "serialization")
        ELSE IF "write" \in F
             THEN Emitted([h EXCEPT !.buffer = Append(@, msg.line)], f, <<>>, "io")
             ELSE Emitted([h EXCEPT !.buffer = <<>>], [f EXCEPT !.mtime = now],
                          Append(h.buffer, msg.line), "none")

(* FileHandler.emit: reopen a stream that is None, then StreamHandler.emit *)
FileHandler_emit(h, f, record, now, F) ==
    IF h.stream # "none"
    THEN StreamHandler_emit(h, f, record, now, F)
    ELSE IF "open" \in F
         THEN Emitted(h, f, <<>>, "io")
         ELSE StreamHandler_emit([h EXCEPT !.stream = "open"], Opened(f, now), record, now, F)

(* BaseRotatingHandler.emit: rollover when due, then write; any exception *)
(* goes to handleError                                                    *)
emit(h, f, record, now, F) ==
    IF shouldRollover(h, now)
    THEN LET r == doRollover(h, f, now, F)
         IN  IF r.err
             THEN Emitted(r.h, r.f, r.flushed, "io")
             ELSE LET e == FileHandler_emit(r.h, r.f, record, now, F)
                  IN  Emitted(e.h, e.f, r.flushed \o e.wrote, e.error)
    ELSE FileHandler_emit(h, f, record, now, F)

Called(hs, f, wrote, errors) == [hs |-> hs, f |-> f, wrote |-> wrote, errors |-> errors]

(* Logger.callHandlers: every handler of the logger whose level admits the *)
(* record handles it, in list order (Handler.handle: lock, emit, unlock)   *)
RECURSIVE callHandlers(_, _, _, _, _)
callHandlers(hs, f, record, now, F) ==
    IF hs = <<>> THEN Called(<<>>, f, <<>>, <<>>)
    ELSE LET h == Head(hs)
             e == IF record.levelno >= h.level
                  THEN emit(h, f, record, now, F)
                  ELSE Emitted(h, f, <<>>, "none")
             rest == callHandlers(Tail(hs), e.f, record, now, F)
         IN  Called(<<e.h>> \o rest.hs, rest.f, e.wrote \o rest.wrote,
                    <<e.error>> \o rest.errors)

(* Logger.handle: no level test (that is isEnabledFor, which the facade *)
(* does not call), no filters: straight to callHandlers                  *)
handle(level, hs, f, record, now, F) == callHandlers(hs, f, record, now, F)

-----------------------------------------------------------------------------
(* create_logger *)

(* logging.getLogger(name): the registered logger, or a new one *)
getLogger(dict, name, id) == IF dict[name] # 0 THEN dict[name] ELSE id

(* TimedRotatingFileHandler(...): opens the file; the first rollover is due *)
(* one interval after the file's modification time                          *)
NewHandler(id, f, now) ==
    [id |-> id, level |-> NOTSET, stream |-> "open", buffer |-> <<>>,
     rolloverAt |-> computeRollover(Opened(f, now).mtime)]

(* logger.handlers.clear(): a handler taken off the list has no other     *)
(* reference; it is finalised at once and its stream closed, which writes *)
(* the lines still in the stream's buffer to the live file                *)
clear(hs, f, now) ==
    IF \E i \in DOMAIN hs : hs[i].stream = "open" /\ hs[i].buffer # <<>>
    THEN [f EXCEPT !.mtime = now]
    ELSE f

attach_without_clear(hs, h) == Append(hs, h)

(* logger.handlers.clear() ... logger.addHandler(handler), run without *)
(* interruption                                                        *)
attach(hs, h) == Append(<<>>, h)

NoReturn == [n |-> 0, firstLogger |-> 0, firstSink |-> 0, logger |-> 0, sink |-> 0]

(* The state after create_logger(name, log_dir, level) has run to its return *)
CreateLogger(name, level, st) ==
    LET logger == getLogger(st.loggerDict, name, st.nextId)
        made == IF logger = st.nextId THEN 1 ELSE 0
        hid == st.nextId + made
        f == clear(st.handlers[name], st.fs[name], clock)
        h == NewHandler(hid, f, clock)
        r == st.returned[name]
    IN  [loggerDict |-> [st.loggerDict EXCEPT ![name] = logger],
         levels |-> [st.levels EXCEPT ![name] = LevelOf(level)],
         handlers |-> [st.handlers EXCEPT ![name] = attach(@, h)],
         fs |-> [st.fs EXCEPT ![name] = Opened(f, clock)],
         nextId |-> hid + 1,
         returned |-> [st.returned EXCEPT ![name] =
                          [n |-> r.n + 1,
                           firstLogger |-> IF r.n = 0 THEN logger ELSE r.firstLogger,
                           firstSink |-> IF r.n = 0 THEN hid ELSE r.firstSink,
                           logger |-> logger, sink |-> hid]]]

Registry ==
    [loggerDict |-> loggerDict, levels |-> levels, handlers |-> handlers, fs |-> fs,
     nextId |-> nextId, returned |-> returned]

SetRegistry(st) ==
    /\ loggerDict' = st.loggerDict
    /\ levels' = st.levels
    /\ handlers' = st.handlers
    /\ fs' = st.fs
    /\ nextId' = st.nextId
    /\ returned' = st.returned

-----------------------------------------------------------------------------
(* Inputs *)

Threads == {1, 2}

IpCamera == <<"1", "9", "2", ".", "1", "6", "8", ".", "1", ".", "1", "0", "0">>
IpScanner == <<"1", "0", ".", "0", ".", "0", ".", "5">>
IpShort == <<"1", "0", ".", "0", ".", "5">>

(* Input families are sequences; an action draws one by its index *)

(* log_network_event: <<event_type, src_ip, dst_ip, port, protocol, kwargs>> *)
NetworkCalls ==
    << <<"connection", IpCamera, IpScanner, 554, "TCP", <<>>>>,
       <<"connection", IpShort, IpCamera, 554, "TCP", <<Pair("category", Str("custom"))>>>>,
       <<"reset", IpCamera, IpCamera, 80, "TCP",
         <<Pair("level", Str("DEBUG")), Pair("message", Str("mine"))>>>>,
       <<"connection", IpCamera, IpCamera, 554, "UDP", <<Pair("payload", Obj)>>>> >>

(* log_api_request: <<method, endpoint, src_ip, status_code, response_time_ms, kwargs>> *)
ApiCalls ==
    << <<"POST", "/api/login", IpCamera, 200, 45300, <<Pair("username", Str("admin"))>>>>,
       <<"GET", "/api/cameras", IpCamera, 200, 2675, <<>>>>,
       <<"GET", "/api/cameras", IpShort, 500, 1006, <<Pair("session", Obj)>>>> >>

Threats ==
    << <<Pair("threat_type", Str("PORT_SCAN")), Pair("severity", Str("HIGH")),
        Pair("src_ip", Text(IpScanner)), Pair("ports_scanned", PyInt(15))>>,
      <<Pair("src_ip", Text(IpShort))>>,
      <<Pair("src_ip_masked", Str("10.0.0.5")), Pair("src_ip", Text(IpScanner))>>,
      <<Pair("category", Str("custom")), Pair("src_ip", Text(IpCamera)),
        Pair("timestamp", Str("never"))>>,
      <<Pair("threat_type", Str("MALWARE")), Pair("dst_ip", Text(IpCamera))>>,
      <<Pair("src_ip", Text(IpScanner)), Pair("payload", Obj)>>,
      <<Pair("threat_type", Float(45300)), Pair("src_ip", PyInt(5))>>,
      <<Pair("threat_type", Str("MALWARE")), Pair("src_ip", Obj)>> >>

NoFault == {}
FaultSets == <<{}, {"write"}, {"rename"}, {"remove"}, {"open"}>>

-----------------------------------------------------------------------------
(* State *)

NoCall ==
    [op |-> "none", channel |-> "", levelno |-> 0, category |-> "", arg |-> <<>>,
     extra |-> <<>>, wrote |-> [n \in Names |-> <<>>], errors |-> <<>>,
     touched |-> {}, F |-> {}, encodable |-> TRUE, sinks |-> <<>>, before |-> {},
     level |-> NOTSET, stuck |-> FALSE, raised |-> "", pending |-> <<>>, at |-> 0]

PriorBackups == {0, backupCount}

(* The live file and the rotated files an earlier run left behind *)
LeftBehind(k) ==
    IF k = 0 THEN NoFile
    ELSE [exists |-> TRUE, mtime |-> 0, backups |-> (0 - k)..(0 - 1)]

NoHandler ==
    [id |-> 0, level |-> NOTSET, stream |-> "none", buffer |-> <<>>, rolloverAt |-> 0]

(* The locals of a thread inside create_logger or inside Handler.handle *)
NoFrame ==
    [ch |-> "", hid |-> 0, record |-> makeRecord("", NOTSET, "", <<>>),
     made |-> NoHandler, due |-> FALSE, wrote |-> <<>>, level |-> "", op |-> "", idx |-> 0]

ThreadsIdle ==
    /\ pc = [t \in Threads |-> "idle"]
    /\ frame = [t \in Threads |-> NoFrame]
    /\ lock = [i \in 1..MaxObjects |-> 0]
    /\ rotations = [n \in Names |-> 0]
    /\ calls = [t \in Threads |-> 0]

MaskIdle == ip = <<>> /\ masked = <<>>

(* A process that has imported the module and constructed nothing *)
Fresh(k) ==
    /\ clock = 0
    /\ loggerDict = [n \in Names |-> 0]
    /\ levels = [n \in Names |-> NOTSET]
    /\ handlers = [n \in Names |-> <<>>]
    /\ nextId = 1
    /\ fs = [n \in Names |-> LeftBehind(k)]
    /\ constructed = 0
    /\ returned = [n \in Names |-> NoReturn]
    /\ last = NoCall
    /\ seen = [failed |-> {}, stuck |-> {}]

Init == (\E k \in PriorBackups : Fresh(k)) /\ ThreadsIdle /\ MaskIdle

-----------------------------------------------------------------------------
(* Sequential operations *)

(* CCTVLogger.__init__: create_logger("events"), then create_logger("threats") *)
CCTVLogger_init(level) ==
    /\ nextId + 3 <= MaxObjects
    /\ SetRegistry(CreateLogger("threats", level, CreateLogger("events", level, Registry)))
    /\ constructed' = constructed + 1
    /\ UNCHANGED <<clock, last, seen, calls, ip, masked, pc, frame, lock, rotations>>

(* create_logger(name) called on its own *)
create_logger(name, level) ==
    /\ nextId + 1 <= MaxObjects
    /\ SetRegistry(CreateLogger(name, level, Registry))
    /\ UNCHANGED <<clock, constructed, last, seen, calls, ip, masked, pc, frame, lock,
                   rotations>>

(* The facade hands record to its logger: self.<x>_logger.handle(record) *)
Log(op, arg, category, record, F) ==
    LET ch == record.name
        ok == \A i \in DOMAIN record.extra_data : Encodable(Val(record.extra_data[i]))
    IN  /\ constructed > 0
        /\ "write" \in F =>
               \A i \in DOMAIN handlers[ch] : Len(handlers[ch][i].buffer) < MaxBuffered
        /\ \E r \in {handle(levels[ch], handlers[ch], fs[ch], record, clock, F)} :
            /\ handlers' = [handlers EXCEPT ![ch] = r.hs]
            /\ fs' = [fs EXCEPT ![ch] = r.f]
            /\ last' = [op |-> op, channel |-> ch, levelno |-> record.levelno,
                        category |-> category, arg |-> arg, extra |-> record.extra_data,
                        wrote |-> [n \in Names |-> IF n = ch THEN r.wrote ELSE <<>>],
                        errors |-> r.errors,
                        touched |-> {n \in Names : fs'[n] # fs[n] \/ handlers'[n] # handlers[n]},
                        F |-> F, encodable |-> ok,
                        sinks |-> [i \in DOMAIN handlers[ch] |-> handlers[ch][i].id],
                        before |-> fs[ch].backups, level |-> levels[ch],
                        stuck |-> \E i \in DOMAIN r.hs :
                                      shouldRollover(r.hs[i], clock)
                                      \/ r.hs[i].stream # "open",
                        raised |-> "",
                        pending |-> [i \in DOMAIN handlers[ch] |-> handlers[ch][i].buffer],
                        at |-> clock]
            /\ seen' = [failed |-> seen.failed \cup (IF ok THEN {} ELSE {ch}),
                        stuck |-> seen.stuck \cup
                                  (IF \E i \in DOMAIN r.hs : r.hs[i].stream # "open"
                                   THEN {ch} ELSE {})]
            /\ UNCHANGED <<clock, loggerDict, levels, nextId, constructed, returned,
                           calls, ip, masked, pc, frame, lock, rotations>>

log_network_event(event_type, src_ip, dst_ip, port, protocol, kwargs, F) ==
    Log("log_network_event", kwargs, "network",
        network_record(event_type, src_ip, dst_ip, port, protocol, kwargs), F)

log_api_request(method, endpoint, src_ip, status_code, response_time_ms, kwargs, F) ==
    Log("log_api_request", kwargs, "api",
        api_record(method, endpoint, src_ip, status_code, response_time_ms, kwargs), F)

(* A facade call that an exception leaves before it reaches its logger *)
Raise(op, ch, arg, category, e) ==
    LET ok == \A i \in DOMAIN arg : Encodable(Val(arg[i]))
    IN  /\ constructed > 0
        /\ last' = [NoCall EXCEPT !.op = op, !.channel = ch, !.category = category,
                                  !.arg = arg, !.encodable = ok, !.level = levels[ch],
                                  !.sinks = [i \in DOMAIN handlers[ch] |-> handlers[ch][i].id],
                                  !.before = fs[ch].backups, !.raised = e,
                                  !.pending = [i \in DOMAIN handlers[ch] |->
                                                  handlers[ch][i].buffer],
                                  !.at = clock]
        /\ seen' = [seen EXCEPT !.failed = @ \cup (IF ok THEN {} ELSE {ch})]
        /\ UNCHANGED <<clock, loggerDict, levels, handlers, nextId, fs, constructed,
                       returned, calls, ip, masked, pc, frame, lock, rotations>>

log_threat(category, threat, F) ==
    LET r == threat_record(category, threat)
    IN  IF r.raised = ""
        THEN Log("log_threat", threat, category, r.value, F)
        ELSE Raise("log_threat", "threats", threat, category, r.raised)

(* A day passes *)
Tick ==
    /\ clock < MaxClock
    /\ clock' = clock + 1
    /\ rotations' = [n \in Names |-> 0]
    /\ UNCHANGED <<loggerDict, levels, handlers, nextId, fs, constructed, returned,
                   last, seen, calls, ip, masked, pc, frame, lock>>

Next ==
    \/ \E l \in DOMAIN LevelNames : CCTVLogger_init(LevelNames[l])
    \/ \E i \in DOMAIN NetworkCalls :
          LET a == NetworkCalls[i]
          IN  log_network_event(a[1], a[2], a[3], a[4], a[5], a[6], NoFault)
    \/ \E i \in DOMAIN ApiCalls :
          LET a == ApiCalls[i]
          IN  log_api_request(a[1], a[2], a[3], a[4], a[5], a[6], NoFault)
    \/ \E i \in DOMAIN Threats : log_threat("network", Threats[i], NoFault)
    \/ Tick

Spec == Init /\ [][Next]_vars

-----------------------------------------------------------------------------
(* _mask_ip on its own (SpecMask) *)

InitMask ==
    /\ Fresh(0) /\ ThreadsIdle
    /\ ip \in Strings(MaxLen)
    /\ masked = <<>>

(* masked = self._mask_ip(ip) *)
mask_call ==
    /\ masked = <<>>
    /\ masked' = _mask_ip(ip)
    /\ UNCHANGED <<clock, loggerDict, levels, handlers, nextId, fs, constructed, returned,
                   last, seen, calls, ip, pc, frame, lock, rotations>>

SpecMask == InitMask /\ [][mask_call]_vars

-----------------------------------------------------------------------------
(* The registry under repeated create_logger calls (SpecRegistry) *)

InitRegistry == Fresh(0) /\ ThreadsIdle /\ MaskIdle

NextRegistry ==
    \/ \E l \in DOMAIN LevelNames : CCTVLogger_init(LevelNames[l])
    \/ \E name \in Names, l \in DOMAIN LevelNames : create_logger(name, LevelNames[l])
    \/ LET a == NetworkCalls[1]
       IN  log_network_event(a[1], a[2], a[3], a[4], a[5], a[6], NoFault)
    \/ log_threat("network", Threats[1], NoFault)
    \/ Tick

SpecRegistry == InitRegistry /\ [][NextRegistry]_vars

-----------------------------------------------------------------------------
(* The facade on a file system whose operations may fail (SpecFaults) *)

WriteFaults == <<{}, {"write"}>>

NextFaults ==
    \/ CCTVLogger_init("INFO")
    \/ \E x \in DOMAIN FaultSets :
          LET a == NetworkCalls[1]
          IN  log_network_event(a[1], a[2], a[3], a[4], a[5], a[6], FaultSets[x])
    \/ \E x \in DOMAIN WriteFaults : log_threat("network", Threats[1], WriteFaults[x])
    \/ Tick

SpecFaults == Init /\ [][NextFaults]_vars

-----------------------------------------------------------------------------
(* The handler's lock *)

acquire_never_blocks(owner, t) == TRUE

(* Handler.acquire: the handler's lock is free, or this thread holds it *)
acquire(owner, t) == owner = 0 \/ owner = t

-----------------------------------------------------------------------------
(* Threads constructing CCTVLogger at the same time (SpecRace).  A thread  *)
(* runs create_logger("events"), then create_logger("threats"), statement  *)
(* by statement: pc[t] is its next statement, frame[t].ch the name.        *)

InitRace ==
    /\ Fresh(0) /\ MaskIdle
    /\ pc = [t \in Threads |-> "getLogger"]
    /\ \E l \in [Threads -> DOMAIN LevelNames] :
          frame = [t \in Threads |-> [NoFrame EXCEPT !.ch = "events",
                                                     !.level = LevelNames[l[t]]]]
    /\ lock = [i \in 1..MaxObjects |-> 0]
    /\ rotations = [n \in Names |-> 0]
    /\ calls = [t \in Threads |-> 0]

(* logger = logging.getLogger(name) *)
race_getLogger(t) ==
    /\ pc[t] = "getLogger"
    /\ nextId <= MaxObjects
    /\ LET name == frame[t].ch
           logger == getLogger(loggerDict, name, nextId)
       IN  /\ loggerDict' = [loggerDict EXCEPT ![name] = logger]
           /\ nextId' = IF logger = nextId THEN nextId + 1 ELSE nextId
    /\ pc' = [pc EXCEPT ![t] = "setLevel"]
    /\ UNCHANGED <<clock, levels, handlers, fs, constructed, returned, last, seen, calls,
                   ip, masked, frame, lock, rotations>>

(* logger.setLevel(getattr(logging, level.upper())) *)
race_setLevel(t) ==
    /\ pc[t] = "setLevel"
    /\ levels' = [levels EXCEPT ![frame[t].ch] = LevelOf(frame[t].level)]
    /\ pc' = [pc EXCEPT ![t] = "clear"]
    /\ UNCHANGED <<clock, loggerDict, handlers, nextId, fs, constructed, returned, last,
                   seen, calls, ip, masked, frame, lock, rotations>>

(* logger.handlers.clear() *)
race_clear(t) ==
    /\ pc[t] = "clear"
    /\ handlers' = [handlers EXCEPT ![frame[t].ch] = <<>>]
    /\ pc' = [pc EXCEPT ![t] = "handler"]
    /\ UNCHANGED <<clock, loggerDict, levels, nextId, fs, constructed, returned, last,
                   seen, calls, ip, masked, frame, lock, rotations>>

(* handler = TimedRotatingFileHandler(...); handler.setFormatter(...) *)
race_handler(t) ==
    /\ pc[t] = "handler"
    /\ nextId <= MaxObjects
    /\ LET name == frame[t].ch
       IN  /\ frame' = [frame EXCEPT ![t].made = NewHandler(nextId, fs[name], clock)]
           /\ fs' = [fs EXCEPT ![name] = Opened(@, clock)]
           /\ nextId' = nextId + 1
    /\ pc' = [pc EXCEPT ![t] = "addHandler"]
    /\ UNCHANGED <<clock, loggerDict, levels, handlers, constructed, returned, last,
                   seen, calls, ip, masked, lock, rotations>>

(* logger.addHandler(handler); return logger *)
race_addHandler(t) ==
    /\ pc[t] = "addHandler"
    /\ LET name == frame[t].ch
           r == returned[name]
       IN  /\ handlers' = [handlers EXCEPT ![name] = Append(@, frame[t].made)]
           /\ returned' = [returned EXCEPT ![name] =
                              [n |-> r.n + 1,
                               firstLogger |-> IF r.n = 0 THEN loggerDict[name]
                                               ELSE r.firstLogger,
                               firstSink |-> IF r.n = 0 THEN frame[t].made.id
                                             ELSE r.firstSink,
                               logger |-> loggerDict[name], sink |-> frame[t].made.id]]
           /\ IF name = "events"
              THEN /\ pc' = [pc EXCEPT ![t] = "getLogger"]
                   /\ frame' = [frame EXCEPT ![t] = [NoFrame EXCEPT !.ch = "threats",
                                                                    !.level = frame[t].level]]
                   /\ UNCHANGED constructed
              ELSE /\ pc' = [pc EXCEPT ![t] = "done"]
                   /\ frame' = [frame EXCEPT ![t] = NoFrame]
                   /\ constructed' = constructed + 1
    /\ UNCHANGED <<clock, loggerDict, levels, nextId, fs, last, seen, calls, ip, masked,
                   lock, rotations>>

(* A thread whose CCTVLogger is built calls the facade while the other may  *)
(* still be in create_logger.  self.<x>_logger.handle(record) goes through  *)
(* callHandlers: for hdlr in c.handlers, over the list as it is at each     *)
(* step of the loop.                                                        *)
race_handle(t, op, record) ==
    /\ pc[t] = "done"
    /\ calls[t] < MaxThreadCalls
    /\ frame' = [frame EXCEPT ![t] = [NoFrame EXCEPT !.ch = record.name, !.op = op,
                                                     !.record = record, !.idx = 1]]
    /\ pc' = [pc EXCEPT ![t] = "callHandlers"]
    /\ UNCHANGED <<clock, loggerDict, levels, handlers, nextId, fs, constructed, returned,
                   last, seen, calls, ip, masked, lock, rotations>>

(* The handler a thread works on: the object on the logger's list, or, once *)
(* the list has dropped it, the object the thread still holds               *)
Held(t) ==
    LET ch == frame[t].ch
        on == {i \in DOMAIN handlers[ch] : handlers[ch][i].id = frame[t].hid}
    IN  IF on = {} THEN frame[t].made ELSE handlers[ch][CHOOSE i \in on : TRUE]

(* for hdlr in c.handlers: the next handler of the list as it is now, read  *)
(* without a lock; if record.levelno >= hdlr.level: hdlr.handle(record)     *)
race_next(t) ==
    /\ pc[t] = "callHandlers"
    /\ frame[t].idx <= Len(handlers[frame[t].ch])
    /\ LET h == handlers[frame[t].ch][frame[t].idx]
       IN  IF frame[t].record.levelno >= h.level
           THEN /\ frame' = [frame EXCEPT ![t].made = h, ![t].hid = h.id,
                                          ![t].idx = @ + 1]
                /\ pc' = [pc EXCEPT ![t] = "acquire"]
           ELSE /\ frame' = [frame EXCEPT ![t].idx = @ + 1]
                /\ UNCHANGED pc
    /\ UNCHANGED <<clock, loggerDict, levels, handlers, nextId, fs, constructed, returned,
                   last, seen, calls, ip, masked, lock, rotations>>

(* Handler.handle: self.acquire() *)
race_acquire(t) ==
    /\ pc[t] = "acquire"
    /\ acquire(lock[frame[t].hid], t)
    /\ lock' = [lock EXCEPT ![frame[t].hid] = t]
    /\ pc' = [pc EXCEPT ![t] = "emit"]
    /\ UNCHANGED <<clock, loggerDict, levels, handlers, nextId, fs, constructed, returned,
                   last, seen, calls, ip, masked, frame, rotations>>

(* Handler.handle: self.emit(record), on the handler the thread fetched, *)
(* whether or not it is still on the list                                *)
race_emit(t) ==
    /\ pc[t] = "emit"
    /\ LET ch == frame[t].ch
           e == emit(Held(t), fs[ch], frame[t].record, clock, NoFault)
       IN  /\ handlers' = [handlers EXCEPT ![ch] =
                              [i \in DOMAIN @ |-> IF @[i].id = frame[t].hid THEN e.h ELSE @[i]]]
           /\ fs' = [fs EXCEPT ![ch] = e.f]
           /\ frame' = [u \in Threads |->
                           IF u = t
                           THEN [frame[u] EXCEPT !.made = e.h, !.wrote = @ \o e.wrote]
                           ELSE IF frame[u].hid = frame[t].hid /\ frame[u].hid # 0
                                THEN [frame[u] EXCEPT !.made = e.h]
                                ELSE frame[u]]
    /\ pc' = [pc EXCEPT ![t] = "release"]
    /\ UNCHANGED <<clock, loggerDict, levels, nextId, constructed, returned, last, seen,
                   calls, ip, masked, lock, rotations>>

(* Handler.handle: self.release(), and back to the loop *)
race_release(t) ==
    /\ pc[t] = "release"
    /\ lock' = [lock EXCEPT ![frame[t].hid] = 0]
    /\ pc' = [pc EXCEPT ![t] = "callHandlers"]
    /\ UNCHANGED <<clock, loggerDict, levels, handlers, nextId, fs, constructed, returned,
                   last, seen, calls, ip, masked, frame, rotations>>

(* the loop over the handlers ends; the facade call returns *)
race_return(t) ==
    /\ pc[t] = "callHandlers"
    /\ frame[t].idx > Len(handlers[frame[t].ch])
    /\ last' = [NoCall EXCEPT !.op = frame[t].op, !.channel = frame[t].ch,
                              !.levelno = frame[t].record.levelno,
                              !.extra = frame[t].record.extra_data,
                              !.wrote = [n \in Names |->
                                            IF n = frame[t].ch THEN frame[t].wrote ELSE <<>>],
                              !.level = levels[frame[t].ch]]
    /\ calls' = [calls EXCEPT ![t] = @ + 1]
    /\ frame' = [frame EXCEPT ![t] = NoFrame]
    /\ pc' = [pc EXCEPT ![t] = "done"]
    /\ UNCHANGED <<clock, loggerDict, levels, handlers, nextId, fs, constructed, returned,
                   seen, ip, masked, lock, rotations>>

NextRace ==
    \/ \E t \in Threads : race_getLogger(t)
    \/ \E t \in Threads : race_setLevel(t)
    \/ \E t \in Threads : race_clear(t)
    \/ \E t \in Threads : race_handler(t)
    \/ \E t \in Threads : race_addHandler(t)
    \/ \E t \in Threads :
          LET a == NetworkCalls[1]
          IN  race_handle(t, "log_network_event",
                          network_record(a[1], a[2], a[3], a[4], a[5], a[6]))
    \/ \E t \in Threads :
          race_handle(t, "log_threat", threat_record("network", Threats[1]).value)
    \/ \E t \in Threads : race_next(t)
    \/ \E t \in Threads : race_acquire(t)
    \/ \E t \in Threads : race_emit(t)
    \/ \E t \in Threads : race_release(t)
    \/ \E t \in Threads : race_return(t)

SpecRace == InitRace /\ [][NextRace]_vars

-----------------------------------------------------------------------------
(* Threads calling one facade at the same time (SpecThreads).  A call goes *)
(* through Logger.handle, callHandlers and Handler.handle: acquire the     *)
(* handler's lock, emit (shouldRollover, doRollover, write), release.      *)

InitThreads ==
    /\ clock = 0
    /\ LET empty == [loggerDict |-> [n \in Names |-> 0],
                     levels |-> [n \in Names |-> NOTSET],
                     handlers |-> [n \in Names |-> <<>>],
                     fs |-> [n \in Names |-> NoFile],
                     nextId |-> 1,
                     returned |-> [n \in Names |-> NoReturn]]
           st == CreateLogger("threats", "INFO", CreateLogger("events", "INFO", empty))
       IN  /\ loggerDict = st.loggerDict
           /\ levels = st.levels
           /\ handlers = st.handlers
           /\ fs = st.fs
           /\ nextId = st.nextId
           /\ returned = st.returned
    /\ constructed = 1
    /\ last = NoCall
    /\ seen = [failed |-> {}, stuck |-> {}]
    /\ ThreadsIdle /\ MaskIdle

Sink(t) == handlers[frame[t].ch][1]

(* self.<x>_logger.handle(record), up to the handler's lock *)
thread_handle(t, record) ==
    /\ pc[t] = "idle"
    /\ calls[t] < MaxThreadCalls
    /\ frame' = [frame EXCEPT ![t] = [NoFrame EXCEPT !.ch = record.name,
                                                     !.hid = handlers[record.name][1].id,
                                                     !.record = record]]
    /\ pc' = [pc EXCEPT ![t] = "acquire"]
    /\ UNCHANGED <<clock, loggerDict, levels, handlers, nextId, fs, constructed, returned,
                   last, seen, calls, ip, masked, lock, rotations>>

thread_acquire(t) ==
    /\ pc[t] = "acquire"
    /\ acquire(lock[frame[t].hid], t)
    /\ lock' = [lock EXCEPT ![frame[t].hid] = t]
    /\ pc' = [pc EXCEPT ![t] = "shouldRollover"]
    /\ UNCHANGED <<clock, loggerDict, levels, handlers, nextId, fs, constructed, returned,
                   last, seen, calls, ip, masked, frame, rotations>>

(* if self.shouldRollover(record): *)
thread_shouldRollover(t) ==
    /\ pc[t] = "shouldRollover"
    /\ LET due == shouldRollover(Sink(t), clock)
       IN  /\ frame' = [frame EXCEPT ![t].due = due]
           /\ pc' = [pc EXCEPT ![t] = IF due THEN "doRollover" ELSE "write"]
    /\ UNCHANGED <<clock, loggerDict, levels, handlers, nextId, fs, constructed, returned,
                   last, seen, calls, ip, masked, lock, rotations>>

(* self.doRollover() *)
thread_doRollover(t) ==
    /\ pc[t] = "doRollover"
    /\ LET ch == frame[t].ch
           r == doRollover(Sink(t), fs[ch], clock, NoFault)
       IN  /\ handlers' = [handlers EXCEPT ![ch] = <<r.h>>]
           /\ fs' = [fs EXCEPT ![ch] = r.f]
           /\ rotations' = [rotations EXCEPT ![ch] = @ + 1]
    /\ pc' = [pc EXCEPT ![t] = "write"]
    /\ UNCHANGED <<clock, loggerDict, levels, nextId, constructed, returned,
                   last, seen, calls, ip, masked, frame, lock>>

(* logging.FileHandler.emit(self, record) *)
thread_write(t) ==
    /\ pc[t] = "write"
    /\ LET ch == frame[t].ch
           e == FileHandler_emit(Sink(t), fs[ch], frame[t].record, clock, NoFault)
       IN  /\ handlers' = [handlers EXCEPT ![ch] = <<e.h>>]
           /\ fs' = [fs EXCEPT ![ch] = e.f]
           /\ frame' = [frame EXCEPT ![t].wrote = e.wrote]
    /\ pc' = [pc EXCEPT ![t] = "release"]
    /\ UNCHANGED <<clock, loggerDict, levels, nextId, constructed, returned,
                   last, seen, calls, ip, masked, lock, rotations>>

(* Handler.release, and the return to the caller *)
thread_release(t) ==
    /\ pc[t] = "release"
    /\ lock' = [lock EXCEPT ![frame[t].hid] = 0]
    /\ calls' = [calls EXCEPT ![t] = @ + 1]
    /\ frame' = [frame EXCEPT ![t] = NoFrame]
    /\ pc' = [pc EXCEPT ![t] = "idle"]
    /\ UNCHANGED <<clock, loggerDict, levels, handlers, nextId, fs, constructed, returned,
                   last, seen, ip, masked, rotations>>

NextThreads ==
    \/ \E t \in Threads :
          LET a == NetworkCalls[1]
          IN  thread_handle(t, network_record(a[1], a[2], a[3], a[4], a[5], a[6]))
    \/ \E t \in Threads : thread_handle(t, threat_record("network", Threats[1]).value)
    \/ \E t \in Threads : thread_acquire(t)
    \/ \E t \in Threads : thread_shouldRollover(t)
    \/ \E t \in Threads : thread_doRollover(t)
    \/ \E t \in Threads : thread_write(t)
    \/ \E t \in Threads : thread_release(t)
    \/ Tick

SpecThreads == InitThreads /\ [][NextThreads]_vars

-----------------------------------------------------------------------------
(* Properties of the sequential facade (Spec) *)

FixedKeys == {"timestamp", "level", "message"}
StrIp(threat) == Has(threat, "src_ip") => TypeOf(Get(threat, "src_ip")) = "str"
Maskable == last.op = "log_threat" => StrIp(last.arg)
Facade == {"log_network_event", "log_api_request", "log_threat"}
Other(ch) == CHOOSE n \in Names : n # ch
Newest(dates) == {d \in dates : Cardinality({e \in dates : e > d}) < backupCount}

(* C1: a log_threat call whose threat mapping has the key src_ip persists a *)
(* record without the key src_ip and with src_ip_masked equal to the masked *)
(* value of threat["src_ip"], whatever else the mapping holds.              *)
C1_ThreatPrivacy ==
    (last.op = "log_threat" /\ Has(last.arg, "src_ip")) =>
        /\ \A i \in DOMAIN last.wrote["threats"] :
               LET line == last.wrote["threats"][i]
               IN  /\ ~Has(line, "src_ip")
                   /\ Has(line, "src_ip_masked")
                   /\ Get(line, "src_ip_masked")
                          = JString(Join(_mask_ip(Chars(Get(last.arg, "src_ip")))))
        /\ (last.encodable /\ StrIp(last.arg)) => Len(last.wrote["threats"]) = 1

C1_Witness ==
    /\ last.op = "log_threat"
    /\ Has(last.arg, "src_ip")
    /\ Has(last.arg, "src_ip_masked")
    /\ Len(last.wrote["threats"]) = 1
    /\ Get(last.wrote["threats"][1], "src_ip_masked") = JString("10.0.0.xxx")

(* C3: every facade call returns normally having appended exactly one      *)
(* record to its own channel (events at INFO for log_network_event and     *)
(* log_api_request, threats at WARNING for log_threat) and leaves the      *)
(* other channel alone: no call is dropped, none writes two records.       *)
C3_EveryCallAppendsOne ==
    last.op \in Facade =>
        /\ last.channel = (IF last.op = "log_threat" THEN "threats" ELSE "events")
        /\ last.levelno = (IF last.op = "log_threat" THEN WARNING ELSE INFO)
        /\ last.raised = ""
        /\ Len(last.wrote[last.channel]) = 1
        /\ last.wrote[Other(last.channel)] = <<>>
        /\ last.touched \subseteq {last.channel}

(* C5: a channel never has more than backupCount (14) rotated files, and a *)
(* call that rotates keeps the newest 14 of them, deleting the oldest.     *)
C5_Retention ==
    /\ \A n \in Names : Cardinality(fs[n].backups) <= backupCount
    /\ last.op \in Facade =>
           fs[last.channel].backups = Newest(last.before \cup fs[last.channel].backups)

C5_Witness ==
    \E n \in Names :
        /\ last.channel = n
        /\ Cardinality(last.before) = backupCount
        /\ Cardinality(fs[n].backups) = backupCount
        /\ fs[n].backups # last.before

(* C8: a call with a field that has no JSON form does not raise to the    *)
(* caller and appends exactly one fallback line holding only the fixed    *)
(* keys timestamp, level and message and error = serialization_failed; a  *)
(* later call on that channel with well-formed fields is logged normally. *)
C8_FallbackLine ==
    last.op \in Facade =>
        /\ ~last.encodable =>
               /\ last.raised = ""
               /\ Len(last.wrote[last.channel]) = 1
               /\ KeysOf(last.wrote[last.channel][1])
                      = {"timestamp", "level", "message", "error"}
               /\ Get(last.wrote[last.channel][1], "error")
                      = JString("serialization_failed")
        /\ (last.encodable /\ Maskable /\ last.channel \in seen.failed) =>
               /\ last.raised = ""
               /\ Len(last.wrote[last.channel]) = 1

(* C10: the persisted record holds exactly the fixed keys and the field    *)
(* keys; every field carries its value even under a fixed key's name, and  *)
(* a caller-supplied key overrides the facade's own field of that name.    *)
C10_LaterWins ==
    last.op \in Facade =>
        \A i \in DOMAIN last.wrote[last.channel] :
            LET line == last.wrote[last.channel][i]
                own == {k \in KeysOf(last.arg) :
                           last.op = "log_threat" => k # "src_ip" /\ k # "src_ip_masked"}
            IN  /\ \A k \in KeysOf(line) : k \in FixedKeys \/ k \in KeysOf(last.extra)
                /\ \A k \in KeysOf(last.extra) : k \in KeysOf(line)
                /\ Has(line, "timestamp") /\ Has(line, "level") /\ Has(line, "message")
                /\ Len(line) = Cardinality(KeysOf(line))
                /\ \A k \in KeysOf(last.extra) : Get(line, k) = Encode(Get(last.extra, k))
                /\ \A k \in own : Get(line, k) = Encode(Get(last.arg, k))
                /\ Has(last.arg, "category") \/ Get(line, "category") = JString(last.category)

C10_Witness ==
    /\ last.op = "log_threat"
    /\ Len(last.wrote["threats"]) = 1
    /\ Get(last.wrote["threats"][1], "category") = JString("custom")
    /\ Get(last.wrote["threats"][1], "timestamp") = JString("never")


-----------------------------------------------------------------------------
(* Properties of _mask_ip (SpecMask) *)

DotsOf(s) == {i \in DOMAIN s : s[i] = Dot}
LastOf(S) == CHOOSE i \in S : \A j \in S : j <= i

(* C2: _mask_ip returns a value for every string: when the string has      *)
(* exactly four dot-separated segments (three dots) the result is the      *)
(* first three segments, dots included, followed by "xxx"; for every other *)
(* string it is "unknown".                                                 *)
C2_MaskTotal ==
    masked # <<>> =>
        IF Cardinality(DotsOf(ip)) = 3
        THEN masked = SubSeq(ip, 1, LastOf(DotsOf(ip))) \o Xxx
        ELSE masked = Unknown

C2_Witness ==
    /\ ip = <<"a", Dot, Dot, "1", Dot, "1">>
    /\ masked = <<"a", Dot, Dot, "1", Dot, "x", "x", "x">>

-----------------------------------------------------------------------------
(* Properties of the registry (SpecRegistry) *)

(* C4, as claimed: every create_logger call for a name returns the sink    *)
(* instance of the first call, and one sink is attached to the name.       *)
C4_SameSinkInstance ==
    \A name \in Names :
        returned[name].n > 0 =>
            /\ returned[name].logger = returned[name].firstLogger
            /\ returned[name].sink = returned[name].firstSink
            /\ Len(handlers[name]) = 1

(* C4, amended: every create_logger call for a name returns the logger     *)
(* object of the first call; each call detaches the sink attached before   *)
(* and attaches a newly created one, so that exactly one sink, the one     *)
(* created by the latest call, is attached to the name and receives the    *)
(* records.                                                                *)
C4_SameLoggerNewSink ==
    \A name \in Names :
        returned[name].n > 0 =>
            /\ returned[name].logger = returned[name].firstLogger
            /\ loggerDict[name] = returned[name].logger
            /\ Len(handlers[name]) = 1
            /\ handlers[name][1].id = returned[name].sink
            /\ returned[name].n > 1 => returned[name].sink # returned[name].firstSink
            /\ (last.op \in Facade /\ last.channel = name) =>
                   /\ Len(last.sinks) = 1
                   /\ Len(last.wrote[name]) = 1

C4_Witness ==
    /\ returned["events"].n >= 2
    /\ returned["events"].sink # returned["events"].firstSink
    /\ last.op = "log_network_event"
    /\ last.sinks = <<returned["events"].sink>>
    /\ Len(last.wrote["events"]) = 1

-----------------------------------------------------------------------------
(* Properties of the facade under file-system failures (SpecFaults) *)

-----------------------------------------------------------------------------
(* Properties of concurrent construction (SpecRace) *)

AllDone == \A t \in Threads : pc[t] = "done"

(* C7, as claimed: threads that call create_logger for a name at the same  *)
(* time leave one sink attached to it, and no record is written twice.     *)
C7_OneSinkAfterRace ==
    AllDone =>
        /\ \A name \in Names : Len(handlers[name]) = 1
        /\ last.op \in Facade => Len(last.wrote[last.channel]) <= 1


-----------------------------------------------------------------------------
(* Properties of concurrent facade calls (SpecThreads) *)

InSection(t) == pc[t] \in {"shouldRollover", "doRollover", "write", "release"}

(* C6: no two threads are between the rotation check and the end of the    *)
(* write for the same channel at once, a thread in there holds the sink's  *)
(* lock, every call that got through wrote one whole record, and at most   *)
(* one rotation of a channel happens per day boundary.                     *)
C6_MutualExclusion ==
    /\ \A t \in Threads, u \in Threads :
           (t # u /\ InSection(t) /\ InSection(u)) => frame[t].ch # frame[u].ch
    /\ \A t \in Threads : InSection(t) => lock[frame[t].hid] = t
    /\ \A t \in Threads :
           pc[t] = "release" =>
               /\ Len(frame[t].wrote) = 1
               /\ KeysOf(frame[t].wrote[1]) = KeysOf(format(frame[t].record, clock).line)
    /\ \A name \in Names : rotations[name] <= 1

C6_Witness ==
    /\ pc[1] = "write"
    /\ frame[1].due
    /\ rotations[frame[1].ch] = 1
    /\ pc[2] = "acquire"
    /\ frame[2].ch = frame[1].ch
    /\ calls[2] > 0

====
